---- MODULE Spec2Model ----
(***************************************************************************)
(* Pass lifecycle and attendance tracking of the gym front-desk            *)
(* application (core/models.py, core/forms.py, core/views.py).             *)
(*                                                                         *)
(* Time is one integer `now`; the calendar date of an instant t is         *)
(* t \div TicksPerDay.  Every row creation stamps the row with `now`       *)
(* (auto_now_add) and lets one tick pass, so timestamps of rows are        *)
(* pairwise distinct, as microsecond timestamps of sequential requests.    *)
(***************************************************************************)
EXTENDS Integers, Sequences, FiniteSets, TLC

\* ---- bounds ------------------------------------------------------------
MaxDay == 1
TicksPerDay == 3
MaxPasses == 2
MaxAttendance == 2
\* the calendar dates the pure date functions are applied to: 0..MaxDate
MaxDate == 3
\* rows of the Attendance table given to the hour statistics
MaxHourRows == 3
\* rows of the Pass table given to the per-plan reports
MaxSalesRows == 3
\* whole days since a visit: 0..MaxDaysSince
MaxDaysSince == 32
\* heights given to calculate_bmi: whole centimetres 150..MaxHeightCm
MaxHeightCm == 175
\* weights given to calculate_bmi: whole kilograms 40..MaxWeightKg
MaxWeightKg == 100
\* sale requests that can be between their check and their write at once
MaxInflight == 2
\* longest run of attended days given to the streak scan
MaxRun == 61

Members == {1, 2}
PlanIds == {1}
Durations == {0, 1, 2}
Prices == {60, 150}

\* range(24): the hours ExtractHour can give
HoursPerDay == 24
\* range(60): the days the streak scan looks at
StreakWindow == 60
Hours == 0..(HoursPerDay - 1)
\* plans of the per-plan reports and the names they may carry (name is not
\* unique)
ReportPlans == {1, 2}
PlanNames == {"1-Day Pass", "3-Day Pass"}
\* CustomerProfile.TRAINING_DAYS_CHOICES and GOAL_CHOICES
TrainingDays == 1..6
Goals == {"muscle_gain", "fat_loss", "strength", "endurance", "general"}

\* None / SQL NULL (row ids start at 1, instants at 0)
NULL == -1

\* profile: the CustomerProfile row of one member
\* inflight: sale requests whose form is validated and whose row is not yet
\*           written
VARIABLES now, plans, passes, attendances, last, profile, inflight

vars == <<now, plans, passes, attendances, last, profile, inflight>>

\* ---- time --------------------------------------------------------------
\* timezone.now().date()
DateOf(t) == t \div TicksPerDay

Today == DateOf(now)

\* a row can be stamped now and leave a later instant of the same day
CanStamp == DateOf(now + 1) = Today

\* ---- Member.get_active_pass / has_active_pass ----------------------------
\* the filter of get_active_pass: start_date <= today <= end_date, active
\* variant: the end_date bound of the filter is missing
ActiveFilterStale(i, m, today) ==
    /\ passes[i].member = m
    /\ passes[i].start_date <= today
    /\ passes[i].status = "active"

\* variant: the filter is not restricted to self.passes
ActiveFilterAnyMember(i, m, today) ==
    /\ passes[i].start_date <= today
    /\ passes[i].end_date >= today
    /\ passes[i].status = "active"

ActiveFilter(i, m, today) ==
    /\ passes[i].member = m
    /\ passes[i].start_date <= today
    /\ passes[i].end_date >= today
    /\ passes[i].status = "active"

\* Meta.ordering = ['-created_at'] and .first(): the newest matching row
get_active_pass(m) ==
    LET S == {i \in DOMAIN passes : ActiveFilter(i, m, Today)}
    IN  IF S = {} THEN NULL
        ELSE CHOOSE i \in S : \A j \in S : passes[j].created_at <= passes[i].created_at

\* variant: any pass of the member with status 'active' counts
has_active_passByStatus(m) ==
    \E i \in DOMAIN passes : passes[i].member = m /\ passes[i].status = "active"

has_active_pass(m) == get_active_pass(m) # NULL

\* ---- MembershipPass.save on creation ------------------------------------
\* end_date is not given by any caller, so it is computed from the plan;
\* a falsy price_snapshot (0) is replaced by the plan's price
\* variant: end_date without the "- 1"
NewPassOffByOne(m, pl, start, price) ==
    [member |-> m,
     plan |-> pl,
     start_date |-> start,
     end_date |-> start + plans[pl].duration_days,
     price_snapshot |-> IF price = 0 THEN plans[pl].price ELSE price,
     status |-> "active",
     created_at |-> now]

NewPass(m, pl, start, price) ==
    [member |-> m,
     plan |-> pl,
     start_date |-> start,
     end_date |-> start + (plans[pl].duration_days - 1),
     price_snapshot |-> IF price = 0 THEN plans[pl].price ELSE price,
     status |-> "active",
     created_at |-> now]

\* ---- MembershipPass.update_status ---------------------------------------
\* variant: every row that is not expired by the call is written back as active
update_statusToggle(p, today) ==
    IF today > p.end_date /\ p.status = "active"
    THEN [p EXCEPT !.status = "expired"]
    ELSE [p EXCEPT !.status = "active"]

\* variant: today >= end_date, the pass expires on its last day
update_statusInclusive(p, today) ==
    IF today >= p.end_date /\ p.status = "active"
    THEN [p EXCEPT !.status = "expired"]
    ELSE p

update_status(p, today) ==
    IF today > p.end_date /\ p.status = "active"
    THEN [p EXCEPT !.status = "expired"]
    ELSE p

\* ---- the sweep at the top of passes_list --------------------------------
\* variant: end_date__lte instead of end_date__lt
SweepInclusive(ps, today) ==
    [i \in DOMAIN ps |->
        IF ps[i].end_date <= today /\ ps[i].status = "active"
        THEN [ps[i] EXCEPT !.status = "expired"]
        ELSE ps[i]]

\* variant: the filter has no end_date__lt
SweepAllActive(ps, today) ==
    [i \in DOMAIN ps |->
        IF ps[i].status = "active"
        THEN [ps[i] EXCEPT !.status = "expired"]
        ELSE ps[i]]

Sweep(ps, today) ==
    [i \in DOMAIN ps |->
        IF ps[i].end_date < today /\ ps[i].status = "active"
        THEN [ps[i] EXCEPT !.status = "expired"]
        ELSE ps[i]]

\* ---- MembershipPass.days_remaining --------------------------------------
\* variant: without the early return for a pass past its end_date
days_remainingNoGuard(p, today) ==
    (p.end_date - today) + 1

days_remaining(p, today) ==
    IF today > p.end_date THEN 0
    ELSE (p.end_date - today) + 1

Init ==
    /\ now = 0
    /\ plans = [pl \in PlanIds |->
                  [duration_days |-> 1, price |-> 60, is_active |-> TRUE]]
    /\ passes = <<>>
    /\ attendances = <<>>
    /\ last = [op |-> "init", member |-> NULL, result |-> "none"]
    /\ profile = [training_days |-> 3, primary_goal |-> "general",
                  is_active |-> TRUE, weekly_schedule |-> <<>>]
    /\ inflight = {}

\* ---- the clock -----------------------------------------------------------
AdvanceDay ==
    /\ Today < MaxDay
    /\ now' = (Today + 1) * TicksPerDay
    /\ last' = [op |-> "advance_day", member |-> NULL, result |-> "none"]
    /\ UNCHANGED <<profile, inflight, plans, passes, attendances>>

\* ---- views.sell_pass -----------------------------------------------------
sell_pass(m, pl) ==
    IF has_active_pass(m)
    THEN /\ last' = [op |-> "sell_pass", member |-> m, result |-> "conflict"]
         /\ UNCHANGED <<profile, inflight, now, plans, passes, attendances>>
    ELSE /\ Len(passes) < MaxPasses
         /\ CanStamp
         /\ passes' = Append(passes, NewPass(m, pl, Today, plans[pl].price))
         /\ now' = now + 1
         /\ last' = [op |-> "sell_pass", member |-> m, result |-> "sold"]
         /\ UNCHANGED <<profile, inflight, plans, attendances>>

\* ---- views.passes_list --------------------------------------------------
\* GET: the sweep, then the listing
passes_list_get ==
    /\ passes' = Sweep(passes, Today)
    /\ last' = [op |-> "passes_list_get", member |-> NULL, result |-> "none"]
    /\ UNCHANGED <<profile, inflight, now, plans, attendances>>

\* SellPassForm: membership_plan must be an active plan (field queryset),
\* and clean() rejects a member who has an active pass
\* variant: the form has no clean()
SellPassFormErrorNoClean(m, pl) ==
    IF ~plans[pl].is_active THEN "invalid_plan" ELSE "none"

SellPassFormError(m, pl) ==
    IF has_active_pass(m) THEN "conflict"
    ELSE IF ~plans[pl].is_active THEN "invalid_plan"
    ELSE "none"

\* POST: the sweep runs first, whatever the form says afterwards
passes_list_post(m, pl) ==
    IF SellPassFormError(m, pl) # "none"
    THEN /\ passes' = Sweep(passes, Today)
         /\ last' = [op |-> "passes_list_post", member |-> m,
                     result |-> SellPassFormError(m, pl)]
         /\ UNCHANGED <<profile, inflight, now, plans, attendances>>
    ELSE /\ Len(passes) < MaxPasses
         /\ CanStamp
         /\ passes' = Append(Sweep(passes, Today),
                             NewPass(m, pl, Today, plans[pl].price))
         /\ now' = now + 1
         /\ last' = [op |-> "passes_list_post", member |-> m, result |-> "sold"]
         /\ UNCHANGED <<profile, inflight, plans, attendances>>

\* ---- MembershipPass.update_status on one row ----------------------------
UpdateStatus(i) ==
    /\ passes' = [passes EXCEPT ![i] = update_status(passes[i], Today)]
    /\ last' = [op |-> "update_status", member |-> NULL, result |-> "none"]
    /\ UNCHANGED <<profile, inflight, now, plans, attendances>>

\* ---- attendance ----------------------------------------------------------
\* variant: the row refers to the newest pass of the table
NewAttendanceLatestPass(m, p) ==
    [member |-> m,
     membership_pass |-> Len(passes),
     checked_in_at |-> now,
     checked_out_at |-> NULL]

\* variant: create() without membership_pass
NewAttendanceNoPass(m, p) ==
    [member |-> m,
     membership_pass |-> NULL,
     checked_in_at |-> now,
     checked_out_at |-> NULL]

NewAttendance(m, p) ==
    [member |-> m,
     membership_pass |-> p,
     checked_in_at |-> now,
     checked_out_at |-> NULL]

\* filter(member=m, checked_in_at__date=today, checked_out_at__isnull=True)
\* variant: the filter has no checked_in_at__date
OpenTodayAnyDay(m) ==
    {k \in DOMAIN attendances :
        /\ attendances[k].member = m
        /\ attendances[k].checked_out_at = NULL}

OpenToday(m) ==
    {k \in DOMAIN attendances :
        /\ attendances[k].member = m
        /\ DateOf(attendances[k].checked_in_at) = Today
        /\ attendances[k].checked_out_at = NULL}

\* views.check_in_member
check_in_member(m) ==
    IF get_active_pass(m) = NULL
    THEN /\ last' = [op |-> "check_in_member", member |-> m,
                     result |-> "no_active_pass"]
         /\ UNCHANGED <<profile, inflight, now, plans, passes, attendances>>
    ELSE IF OpenToday(m) # {}
    THEN /\ last' = [op |-> "check_in_member", member |-> m,
                     result |-> "duplicate"]
         /\ UNCHANGED <<profile, inflight, now, plans, passes, attendances>>
    ELSE /\ Len(attendances) < MaxAttendance
         /\ CanStamp
         /\ attendances' = Append(attendances, NewAttendance(m, get_active_pass(m)))
         /\ now' = now + 1
         /\ last' = [op |-> "check_in_member", member |-> m,
                     result |-> "checked_in"]
         /\ UNCHANGED <<profile, inflight, plans, passes>>

\* views.attendance_list, POST with CheckInForm (clean_member rejects a
\* member without an active pass); there is no look at open rows here
attendance_list_post(m) ==
    IF ~has_active_pass(m)
    THEN /\ last' = [op |-> "attendance_list_post", member |-> m,
                     result |-> "no_active_pass"]
         /\ UNCHANGED <<profile, inflight, now, plans, passes, attendances>>
    ELSE /\ Len(attendances) < MaxAttendance
         /\ CanStamp
         /\ attendances' = Append(attendances, NewAttendance(m, get_active_pass(m)))
         /\ now' = now + 1
         /\ last' = [op |-> "attendance_list_post", member |-> m,
                     result |-> "checked_in"]
         /\ UNCHANGED <<profile, inflight, plans, passes>>

\* Meta.ordering = ['-checked_in_at'] and .last(): the final row of the
\* newest-first listing
LastOpenToday(m) ==
    IF OpenToday(m) = {} THEN NULL
    ELSE CHOOSE k \in OpenToday(m) :
            \A j \in OpenToday(m) :
                attendances[k].checked_in_at <= attendances[j].checked_in_at

\* views.check_out_member
check_out_member(m) ==
    IF LastOpenToday(m) = NULL
    THEN /\ last' = [op |-> "check_out_member", member |-> m,
                     result |-> "not_checked_in"]
         /\ UNCHANGED <<profile, inflight, now, plans, passes, attendances>>
    ELSE /\ attendances' = [attendances EXCEPT
                              ![LastOpenToday(m)].checked_out_at = now]
         /\ last' = [op |-> "check_out_member", member |-> m,
                     result |-> "checked_out"]
         /\ UNCHANGED <<profile, inflight, now, plans, passes>>

\* ---- views.plan_edit -----------------------------------------------------
\* variant: saving the plan also rewrites the price of the passes sold from it
plan_editRepricing(pl, d, pr, a) ==
    /\ plans' = [plans EXCEPT ![pl] =
                   [duration_days |-> d, price |-> pr, is_active |-> a]]
    /\ passes' = [i \in DOMAIN passes |->
                    IF passes[i].plan = pl
                    THEN [passes[i] EXCEPT !.price_snapshot = pr]
                    ELSE passes[i]]
    /\ last' = [op |-> "plan_edit", member |-> NULL, result |-> "none"]
    /\ UNCHANGED <<profile, inflight, now, attendances>>

plan_edit(pl, d, pr, a) ==
    /\ plans' = [plans EXCEPT ![pl] =
                   [duration_days |-> d, price |-> pr, is_active |-> a]]
    /\ last' = [op |-> "plan_edit", member |-> NULL, result |-> "none"]
    /\ UNCHANGED <<profile, inflight, now, passes, attendances>>

\* ---- views.plans_list, POST 'create' ---------------------------------------
\* The plan gets a fresh id.  The ids of the model are those of PlanIds; the
\* id of a deleted plan is free again, which no row can tell, since a plan
\* is deleted only when no pass refers to it.
plans_list_create(d, pr, a) ==
    /\ PlanIds \ DOMAIN plans # {}
    /\ LET id == CHOOSE q \in PlanIds \ DOMAIN plans : TRUE
       IN  plans' = [q \in DOMAIN plans \cup {id} |->
                       IF q = id
                       THEN [duration_days |-> d, price |-> pr, is_active |-> a]
                       ELSE plans[q]]
    /\ last' = [op |-> "plans_list_create", member |-> NULL, result |-> "none"]
    /\ UNCHANGED <<profile, inflight, now, passes, attendances>>

\* ---- views.plan_delete ---------------------------------------------------
\* membership_plan = ForeignKey(..., on_delete=PROTECT): the passes that make
\* plan.delete() raise
\* variant: the foreign key protects nothing
ProtectedByNone(pl) == {}

ProtectedBy(pl) == {i \in DOMAIN passes : passes[i].plan = pl}

\* the exception of delete() is caught and shown as an error message
plan_delete(pl) ==
    IF ProtectedBy(pl) # {}
    THEN /\ last' = [op |-> "plan_delete", member |-> NULL,
                     result |-> "protected", plan |-> pl]
         /\ UNCHANGED <<profile, inflight, now, plans, passes, attendances>>
    ELSE /\ plans' = [q \in DOMAIN plans \ {pl} |-> plans[q]]
         /\ last' = [op |-> "plan_delete", member |-> NULL,
                     result |-> "deleted", plan |-> pl]
         /\ UNCHANGED <<profile, inflight, now, passes, attendances>>

\* ---- services.get_expired_passes_count (views.dashboard) ------------------
get_expired_passes_count ==
    /\ last' = [op |-> "get_expired_passes_count", member |-> NULL,
                result |-> "none",
                value |-> Cardinality({i \in DOMAIN passes :
                                          passes[i].status = "expired"})]
    /\ UNCHANGED <<profile, inflight, now, plans, passes, attendances>>

\* ---- services.get_total_revenue -------------------------------------------
RECURSIVE SumPriceSnapshot(_)
\* Sum('price_snapshot'), None over no rows
SumPriceSnapshot(ps) ==
    IF ps = <<>> THEN NULL
    ELSE IF Len(ps) = 1 THEN ps[1].price_snapshot
    ELSE ps[1].price_snapshot + SumPriceSnapshot(Tail(ps))

\* aggregate(...)['total'] or 0
get_total_revenue(ps) ==
    IF SumPriceSnapshot(ps) = NULL \/ SumPriceSnapshot(ps) = 0 THEN 0
    ELSE SumPriceSnapshot(ps)

Next ==
    \/ AdvanceDay
    \/ \E m \in Members, pl \in DOMAIN plans : sell_pass(m, pl)
    \/ passes_list_get
    \/ \E m \in Members, pl \in DOMAIN plans : passes_list_post(m, pl)
    \/ \E i \in DOMAIN passes : UpdateStatus(i)
    \/ \E m \in Members : check_in_member(m)
    \/ \E m \in Members : attendance_list_post(m)
    \/ \E m \in Members : check_out_member(m)
    \/ \E pl \in DOMAIN plans, d \in Durations, pr \in Prices, a \in BOOLEAN :
          plan_edit(pl, d, pr, a)
    \/ \E d \in Durations, pr \in Prices, a \in BOOLEAN :
          plans_list_create(d, pr, a)
    \/ \E pl \in DOMAIN plans : plan_delete(pl)
    \/ get_expired_passes_count

Spec == Init /\ [][Next]_vars

\* =========================================================================
\* The two sale views as web workers run them: each request is a read
\* (the one-active-pass test) and a later write (create), with no lock and
\* no transaction between them, so steps of other requests can come between.
\* =========================================================================
FreeRequestIds == (1..MaxInflight) \ {r.id : r \in inflight}

\* sell_pass up to the has_active_pass test
sell_pass_check(m, pl) ==
    IF has_active_pass(m)
    THEN /\ last' = [op |-> "sell_pass_check", member |-> m, result |-> "conflict"]
         /\ UNCHANGED <<profile, inflight, now, plans, passes, attendances>>
    ELSE /\ FreeRequestIds # {}
         /\ inflight' = inflight \cup
               {[id |-> CHOOSE k \in FreeRequestIds : TRUE, view |-> "sell_pass",
                 member |-> m, plan |-> pl, price |-> plans[pl].price,
                 today |-> NULL]}
         /\ last' = [op |-> "sell_pass_check", member |-> m, result |-> "valid"]
         /\ UNCHANGED <<profile, now, plans, passes, attendances>>

\* passes_list up to form.is_valid(): today is read, the sweep runs, the
\* form is cleaned
passes_list_check(m, pl) ==
    IF SellPassFormError(m, pl) # "none"
    THEN /\ passes' = Sweep(passes, Today)
         /\ last' = [op |-> "passes_list_check", member |-> m,
                     result |-> SellPassFormError(m, pl)]
         /\ UNCHANGED <<profile, inflight, now, plans, attendances>>
    ELSE /\ FreeRequestIds # {}
         /\ passes' = Sweep(passes, Today)
         /\ inflight' = inflight \cup
               {[id |-> CHOOSE k \in FreeRequestIds : TRUE, view |-> "passes_list",
                 member |-> m, plan |-> pl, price |-> plans[pl].price,
                 today |-> Today]}
         /\ last' = [op |-> "passes_list_check", member |-> m, result |-> "valid"]
         /\ UNCHANGED <<profile, now, plans, attendances>>

\* start_date of the row: sell_pass reads the date at the write, passes_list
\* uses the date read at the start of the request
StartDateOf(r) == IF r.view = "sell_pass" THEN Today ELSE r.today

\* MembershipPass.objects.create of a request that passed its test
\* variant: the test is made again in the step of the write
sale_createRechecked(r) ==
    IF has_active_pass(r.member)
    THEN /\ inflight' = inflight \ {r}
         /\ last' = [op |-> "sale_create", member |-> r.member,
                     result |-> "conflict"]
         /\ UNCHANGED <<profile, now, plans, passes, attendances>>
    ELSE /\ Len(passes) < MaxPasses
         /\ CanStamp
         /\ passes' = Append(passes, NewPass(r.member, r.plan, StartDateOf(r), r.price))
         /\ now' = now + 1
         /\ inflight' = inflight \ {r}
         /\ last' = [op |-> "sale_create", member |-> r.member, result |-> "sold"]
         /\ UNCHANGED <<profile, plans, attendances>>

sale_create(r) ==
    /\ Len(passes) < MaxPasses
    /\ CanStamp
    /\ passes' = Append(passes, NewPass(r.member, r.plan, StartDateOf(r), r.price))
    /\ now' = now + 1
    /\ inflight' = inflight \ {r}
    /\ last' = [op |-> "sale_create", member |-> r.member, result |-> "sold"]
    /\ UNCHANGED <<profile, plans, attendances>>

NextRace ==
    \/ AdvanceDay
    \/ \E m \in Members, pl \in DOMAIN plans : sell_pass_check(m, pl)
    \/ \E m \in Members, pl \in DOMAIN plans : passes_list_check(m, pl)
    \/ \E r \in inflight : sale_create(r)

RaceSpec == Init /\ [][NextRace]_vars

\* =========================================================================
\* The read-side functions applied to inputs drawn from bounded sets; the
\* tables stay as they are, `last` holds the call and what it returned.
\* =========================================================================
\* sequences over S of length 0..n
SeqsUpTo(S, n) == UNION {[1..k -> S] : k \in 0..n}

\* ---- hour statistics: annotate(hour=ExtractHour).values('hour')
\* ---- .annotate(count=Count('id')) ------------------------------------------
\* hs: the check-in hour of every Attendance row
HourStats(hs) ==
    {<<h, Cardinality({k \in DOMAIN hs : hs[k] = h})>> : h \in {hs[k] : k \in DOMAIN hs}}

\* services.get_peak_hour: the results the query can give; rows of equal
\* count come in an order the database chooses
\* variant: order_by('count')
get_peak_hourAscending(hs) ==
    IF HourStats(hs) = {} THEN {<<17, 0>>}
    ELSE {s \in HourStats(hs) : \A t \in HourStats(hs) : s[2] <= t[2]}

get_peak_hour(hs) ==
    IF HourStats(hs) = {} THEN {<<17, 0>>}
    ELSE {s \in HourStats(hs) : \A t \in HourStats(hs) : t[2] <= s[2]}

\* services.get_hourly_distribution
\* variant: no zero-filled dict, only the hours of the query
get_hourly_distributionNoFill(hs) ==
    [i \in {s[1] : s \in HourStats(hs)} |->
        (CHOOSE s \in HourStats(hs) : s[1] = i)[2]]

get_hourly_distribution(hs) ==
    [i \in Hours |->
        IF \E s \in HourStats(hs) : s[1] = i
        THEN (CHOOSE s \in HourStats(hs) : s[1] = i)[2]
        ELSE 0]

call_get_peak_hour ==
    /\ last.op = "init"
    /\ \E hs \in SeqsUpTo(Hours, MaxHourRows) : \E r \in get_peak_hour(hs) :
          last' = [op |-> "get_peak_hour", member |-> NULL, result |-> "none",
                   input |-> hs, value |-> r]
    /\ UNCHANGED <<profile, inflight, now, plans, passes, attendances>>

call_get_hourly_distribution ==
    /\ last.op = "init"
    /\ \E hs \in SeqsUpTo(Hours, MaxHourRows) :
          last' = [op |-> "get_hourly_distribution", member |-> NULL,
                   result |-> "none",
                   input |-> hs, value |-> get_hourly_distribution(hs)]
    /\ UNCHANGED <<profile, inflight, now, plans, passes, attendances>>

\* ---- per-plan reports ------------------------------------------------------
\* names: plan id -> name;  ps: the Pass rows, [plan, price_snapshot]
\* values(plan_name=F('membership_plan__name')): the groups of the query
PlanNameGroups(names, ps) == {names[ps[k].plan] : k \in DOMAIN ps}

RowsOfName(names, ps, n) == {k \in DOMAIN ps : names[ps[k].plan] = n}

RECURSIVE SumOver(_, _)
\* Sum('price_snapshot') over the rows K
SumOver(ps, K) ==
    IF K = {} THEN 0
    ELSE LET k == CHOOSE x \in K : TRUE
         IN  ps[k].price_snapshot + SumOver(ps, K \ {k})

\* the orders of the set S that are descending in field f
DescendingBy(S, f) ==
    {s \in [1..Cardinality(S) -> S] :
        /\ \A i, j \in DOMAIN s : i # j => s[i] # s[j]
        /\ \A i, j \in DOMAIN s : i < j => s[i][f] >= s[j][f]}

\* services.get_sales_count_by_plan: annotate(count=Count('id')).order_by('-count')
get_sales_count_by_plan(names, ps) ==
    DescendingBy({[plan_name |-> n,
                   count |-> Cardinality(RowsOfName(names, ps, n))] :
                     n \in PlanNameGroups(names, ps)}, "count")

\* services.get_revenue_by_plan: annotate(total=Sum('price_snapshot')).order_by('-total')
get_revenue_by_plan(names, ps) ==
    DescendingBy({[plan_name |-> n,
                   total |-> SumOver(ps, RowsOfName(names, ps, n))] :
                     n \in PlanNameGroups(names, ps)}, "total")

ReportRows == [plan : ReportPlans, price_snapshot : Prices]

call_get_sales_count_by_plan ==
    /\ last.op = "init"
    /\ \E names \in [ReportPlans -> PlanNames], ps \in SeqsUpTo(ReportRows, MaxSalesRows) :
          \E r \in get_sales_count_by_plan(names, ps) :
             last' = [op |-> "get_sales_count_by_plan", member |-> NULL,
                      result |-> "none",
                      names |-> names, input |-> ps, value |-> r]
    /\ UNCHANGED <<profile, inflight, now, plans, passes, attendances>>

call_get_revenue_by_plan ==
    /\ last.op = "init"
    /\ \E names \in [ReportPlans -> PlanNames], ps \in SeqsUpTo(ReportRows, MaxSalesRows) :
          \E r \in get_revenue_by_plan(names, ps) :
             last' = [op |-> "get_revenue_by_plan", member |-> NULL,
                      result |-> "none",
                      names |-> names, input |-> ps, value |-> r]
    /\ UNCHANGED <<profile, inflight, now, plans, passes, attendances>>

\* ---- services.predict_churn -------------------------------------------------
\* visits: whole days since each check-in of the member; attendances.first()
\* under ordering '-checked_in_at' is the latest one, the least days ago
DaysSinceLastVisit(visits) == CHOOSE d \in visits : \A e \in visits : d <= e

ChurnClamp(prob) ==
    LET lo == IF prob < 99 THEN prob ELSE 99
    IN  IF lo > 1 THEN lo ELSE 1

\* variant: the bands are d < 7, d < 14, d < 30
predict_churnStrictBands(visits) ==
    IF visits = {} THEN [prob |-> 95, risk |-> "Low"]
    ELSE LET d == DaysSinceLastVisit(visits)
         IN  IF d < 7 THEN [prob |-> ChurnClamp(90 - (d * 2)), risk |-> "Low"]
             ELSE IF d < 14
                  THEN [prob |-> ChurnClamp(75 - ((d - 7) * 3)), risk |-> "Medium"]
             ELSE IF d < 30
                  THEN [prob |-> ChurnClamp(50 - ((d - 14) * 2)), risk |-> "High"]
             ELSE [prob |-> ChurnClamp(10), risk |-> "Critical"]

\* variant: the Medium band starts from 95
predict_churnRisingAtBand(visits) ==
    IF visits = {} THEN [prob |-> 95, risk |-> "Low"]
    ELSE LET d == DaysSinceLastVisit(visits)
         IN  IF d <= 7 THEN [prob |-> ChurnClamp(90 - (d * 2)), risk |-> "Low"]
             ELSE IF d <= 14
                  THEN [prob |-> ChurnClamp(95 - ((d - 7) * 3)), risk |-> "Medium"]
             ELSE IF d <= 30
                  THEN [prob |-> ChurnClamp(50 - ((d - 14) * 2)), risk |-> "High"]
             ELSE [prob |-> ChurnClamp(10), risk |-> "Critical"]

predict_churn(visits) ==
    IF visits = {} THEN [prob |-> 95, risk |-> "Low"]
    ELSE LET d == DaysSinceLastVisit(visits)
         IN  IF d <= 7 THEN [prob |-> ChurnClamp(90 - (d * 2)), risk |-> "Low"]
             ELSE IF d <= 14
                  THEN [prob |-> ChurnClamp(75 - ((d - 7) * 3)), risk |-> "Medium"]
             ELSE IF d <= 30
                  THEN [prob |-> ChurnClamp(50 - ((d - 14) * 2)), risk |-> "High"]
             ELSE [prob |-> ChurnClamp(10), risk |-> "Critical"]

\* views.customer_dashboard: 'return_prob': int(prob * 100)
\* the members' histories: no visit, one visit, two visits
VisitSets == {{}} \cup {{a, b} : a, b \in 0..MaxDaysSince}

call_predict_churn ==
    /\ last.op = "init"
    /\ \E visits \in VisitSets :
          last' = [op |-> "predict_churn", member |-> NULL, result |-> "none",
                   input |-> visits, value |-> predict_churn(visits),
                   return_prob |-> predict_churn(visits).prob * 100]
    /\ UNCHANGED <<profile, inflight, now, plans, passes, attendances>>

\* ---- FitnessService.generate_weekly_structure --------------------------------
\* the dict {1: [...], ..., n: [...]} is the sequence of its n lists
\* variant: the last branch gives the five-day split
generate_weekly_structureShortWeek(p) ==
    IF p.training_days = 1
    THEN << <<"Chest", "Back", "Legs", "Shoulders", "Arms", "Core">> >>
    ELSE IF p.training_days = 2
    THEN << <<"Chest", "Back", "Shoulders", "Arms">>,
            <<"Legs", "Core">> >>
    ELSE IF p.training_days = 3
    THEN << <<"Chest", "Back", "Legs", "Core">>,
            <<"Shoulders", "Arms", "Legs", "Core">>,
            <<"Chest", "Back", "Shoulders", "Legs">> >>
    ELSE IF p.training_days = 4
    THEN << <<"Chest", "Back", "Shoulders", "Arms">>,
            <<"Quads", "Hamstrings", "Calves", "Core">>,
            <<"Chest", "Back", "Shoulders", "Arms">>,
            <<"Quads", "Hamstrings", "Calves", "Core">> >>
    ELSE << <<"Chest", "Shoulders", "Triceps">>,
            <<"Back", "Biceps", "Rear Delts">>,
            <<"Legs", "Core">>,
            <<"Upper Body">>,
            <<"Lower Body">> >>

generate_weekly_structure(p) ==
    IF p.training_days = 1
    THEN << <<"Chest", "Back", "Legs", "Shoulders", "Arms", "Core">> >>
    ELSE IF p.training_days = 2
    THEN << <<"Chest", "Back", "Shoulders", "Arms">>,
            <<"Legs", "Core">> >>
    ELSE IF p.training_days = 3
    THEN << <<"Chest", "Back", "Legs", "Core">>,
            <<"Shoulders", "Arms", "Legs", "Core">>,
            <<"Chest", "Back", "Shoulders", "Legs">> >>
    ELSE IF p.training_days = 4
    THEN << <<"Chest", "Back", "Shoulders", "Arms">>,
            <<"Quads", "Hamstrings", "Calves", "Core">>,
            <<"Chest", "Back", "Shoulders", "Arms">>,
            <<"Quads", "Hamstrings", "Calves", "Core">> >>
    ELSE IF p.training_days = 5
    THEN << <<"Chest", "Shoulders", "Triceps">>,
            <<"Back", "Biceps", "Rear Delts">>,
            <<"Legs", "Core">>,
            <<"Upper Body">>,
            <<"Lower Body">> >>
    ELSE << <<"Chest", "Shoulders", "Triceps">>,
            <<"Back", "Biceps", "Rear Delts">>,
            <<"Quads", "Hamstrings", "Calves", "Core">>,
            <<"Chest", "Shoulders", "Triceps">>,
            <<"Back", "Biceps", "Rear Delts">>,
            <<"Legs", "Core">> >>

\* ---- views.customer_personalization -----------------------------------------
\* a schedule field of the form after split(',') and strip(): blank, or labels
DayContents == {<<>>, <<"Cardio">>}

\* not profile.weekly_schedule
ScheduleEmpty(s) == DOMAIN s = {}

\* GET: "Ensure schedule exists if active"
personalization_get ==
    /\ IF profile.is_active /\ ScheduleEmpty(profile.weekly_schedule)
       THEN /\ profile' = [profile EXCEPT !.weekly_schedule =
                                            generate_weekly_structure(profile)]
            /\ last' = [op |-> "personalization_get", member |-> NULL,
                        result |-> "regenerated"]
       ELSE /\ profile' = profile
            /\ last' = [op |-> "personalization_get", member |-> NULL,
                        result |-> "kept"]
    /\ UNCHANGED <<inflight, now, plans, passes, attendances>>

\* POST action=disable
personalization_disable ==
    /\ profile' = [profile EXCEPT !.is_active = FALSE]
    /\ last' = [op |-> "personalization_disable", member |-> NULL,
                result |-> "kept"]
    /\ UNCHANGED <<inflight, now, plans, passes, attendances>>

\* POST action=enable
personalization_enable ==
    /\ profile' = [profile EXCEPT !.is_active = TRUE]
    /\ last' = [op |-> "personalization_enable", member |-> NULL,
                result |-> "kept"]
    /\ UNCHANGED <<inflight, now, plans, passes, attendances>>

\* POST action=update_structure; content[d] is the field day_d
personalization_update_structure(content) ==
    /\ profile' = [profile EXCEPT !.weekly_schedule =
                      [d \in {e \in 1..profile.training_days : content[e] # <<>>}
                          |-> content[d]]]
    /\ last' = [op |-> "personalization_update_structure", member |-> NULL,
                result |-> "edited"]
    /\ UNCHANGED <<inflight, now, plans, passes, attendances>>

\* POST, any other action: update of the profile configuration
\* variant: the schedule is regenerated on every update
personalization_updateAlwaysRegenerate(n, g) ==
    LET updated == [profile EXCEPT !.training_days = n, !.primary_goal = g,
                                   !.is_active = TRUE]
    IN  /\ profile' = [updated EXCEPT !.weekly_schedule =
                                         generate_weekly_structure(updated)]
        /\ last' = [op |-> "personalization_update", member |-> NULL,
                    result |-> IF profile.training_days # n
                                  \/ ScheduleEmpty(profile.weekly_schedule)
                               THEN "regenerated" ELSE "kept"]
        /\ UNCHANGED <<inflight, now, plans, passes, attendances>>

personalization_update(n, g) ==
    LET updated == [profile EXCEPT !.training_days = n, !.primary_goal = g,
                                   !.is_active = TRUE]
    IN  /\ IF profile.training_days # n \/ ScheduleEmpty(profile.weekly_schedule)
           THEN /\ profile' = [updated EXCEPT !.weekly_schedule =
                                                 generate_weekly_structure(updated)]
                /\ last' = [op |-> "personalization_update", member |-> NULL,
                            result |-> "regenerated"]
           ELSE /\ profile' = updated
                /\ last' = [op |-> "personalization_update", member |-> NULL,
                            result |-> "kept"]
        /\ UNCHANGED <<inflight, now, plans, passes, attendances>>

NextProfile ==
    \/ personalization_get
    \/ personalization_disable
    \/ personalization_enable
    \/ \E content \in [1..profile.training_days -> DayContents] :
          personalization_update_structure(content)
    \/ \E n \in TrainingDays, g \in Goals : personalization_update(n, g)

ProfileSpec == Init /\ [][NextProfile]_vars

call_generate_weekly_structure ==
    /\ last.op = "init"
    /\ \E n \in TrainingDays, g \in Goals :
          last' = [op |-> "generate_weekly_structure", member |-> NULL,
                   result |-> "none",
                   training_days |-> n, primary_goal |-> g,
                   value |-> generate_weekly_structure(
                                [training_days |-> n, primary_goal |-> g])]
    /\ UNCHANGED <<profile, inflight, now, plans, passes, attendances>>

\* ---- FitnessService.calculate_bmi --------------------------------------------
\* a float comparison of bmi = weight / (height / 100) ** 2 with a bound
\* t / 10, in integers: x = 100000 * weight against t * height ** 2. Where the
\* exact quotient equals the bound, the rounding of the float division and
\* of the bound's literal decides, so both outcomes are kept.
BmiBelow(h, w, t) ==
    IF 100000 * w < t * h * h THEN {TRUE}
    ELSE IF 100000 * w = t * h * h THEN BOOLEAN
    ELSE {FALSE}

BmiCategoryOf(under185, upto249, under250, upto299) ==
    IF under185 THEN "Underweight"
    ELSE IF upto249 THEN "Normal"
    ELSE IF ~under250 /\ upto299 THEN "Overweight"
    ELSE "Obese"

\* the results calculate_bmi can give: "None" for None, else the category
\* of the dict
calculate_bmi(height_cm, weight_kg) ==
    IF height_cm \in {NULL, 0} \/ weight_kg \in {NULL, 0} THEN {"None"}
    ELSE IF height_cm <= 0 THEN {"None"}
    ELSE {BmiCategoryOf(a, b, c, d) :
            a \in BmiBelow(height_cm, weight_kg, 185),
            b \in BmiBelow(height_cm, weight_kg, 249),
            c \in BmiBelow(height_cm, weight_kg, 250),
            d \in BmiBelow(height_cm, weight_kg, 299)}

HeightsCm == {NULL, 0, 0 - 150} \cup (150..MaxHeightCm)
WeightsKg == {NULL, 0} \cup (40..MaxWeightKg)

call_calculate_bmi ==
    /\ last.op = "init"
    /\ \E h \in HeightsCm, w \in WeightsKg : \E c \in calculate_bmi(h, w) :
          last' = [op |-> "calculate_bmi", member |-> NULL, result |-> "none",
                   height_cm |-> h, weight_kg |-> w, value |-> c]
    /\ UNCHANGED <<profile, inflight, now, plans, passes, attendances>>

\* predict_churn for two members with one visit each
call_predict_churn_pair ==
    /\ last.op = "init"
    /\ \E a, b \in 0..MaxDaysSince :
          last' = [op |-> "predict_churn_pair", member |-> NULL, result |-> "none",
                   days1 |-> a, days2 |-> b,
                   value1 |-> predict_churn({a}), value2 |-> predict_churn({b})]
    /\ UNCHANGED <<profile, inflight, now, plans, passes, attendances>>

\* ---- FitnessService.get_member_analytics: the streak metric ------------------
\* days: the days ago (0 = today) on which the member has an Attendance row
RECURSIVE StreakScan(_, _, _)
\* the loop "for i in range(60)" from step i with the streak so far
StreakScan(days, i, streak) ==
    IF i >= StreakWindow THEN streak
    ELSE IF i \in days THEN StreakScan(days, i + 1, streak + 1)
    ELSE IF i > 0 THEN streak
    ELSE StreakScan(days, i + 1, streak)

\* variant: a day without attendance ends the scan, today included
get_member_analyticsStrict(days) ==
    [streak |-> IF 0 \in days THEN StreakScan(days, 0, 0) ELSE 0]

get_member_analytics(days) ==
    [streak |-> StreakScan(days, 0, 0)]

\* histories: today or not, a run of r days ending yesterday, then a gap of
\* one day and two more days or not
AttendedDays ==
    {(IF t THEN {0} ELSE {}) \cup (1..r) \cup (IF e THEN (r + 2)..(r + 3) ELSE {}) :
        t \in BOOLEAN, r \in 0..MaxRun, e \in BOOLEAN}

call_get_member_analytics ==
    /\ last.op = "init"
    /\ \E days \in AttendedDays :
          last' = [op |-> "get_member_analytics", member |-> NULL,
                   result |-> "none",
                   input |-> days, value |-> get_member_analytics(days)]
    /\ UNCHANGED <<profile, inflight, now, plans, passes, attendances>>

call_days_remaining ==
    /\ last.op = "init"
    /\ \E e \in 0..MaxDate, t \in 0..MaxDate :
          last' = [op |-> "days_remaining", member |-> NULL, result |-> "none",
                   end_date |-> e, today |-> t,
                   value |-> days_remaining([end_date |-> e], t)]
    /\ UNCHANGED <<profile, inflight, now, plans, passes, attendances>>

NextFn ==
    \/ call_days_remaining
    \/ call_get_peak_hour
    \/ call_get_hourly_distribution
    \/ call_get_sales_count_by_plan
    \/ call_get_revenue_by_plan
    \/ call_predict_churn
    \/ call_generate_weekly_structure
    \/ call_calculate_bmi
    \/ call_predict_churn_pair
    \/ call_get_member_analytics

FnSpec == Init /\ [][NextFn]_vars

\* =========================================================================
\* Properties
\* =========================================================================
\* a pass that is 'active' and whose date range contains today
ValidToday(i) ==
    /\ passes[i].status = "active"
    /\ passes[i].start_date <= Today
    /\ Today <= passes[i].end_date

ValidPassesOf(m) == {i \in DOMAIN passes : passes[i].member = m /\ ValidToday(i)}

\* open attendance rows of m whose check-in date is today
OpenRowsToday(m) ==
    {k \in DOMAIN attendances :
        /\ attendances[k].member = m
        /\ attendances[k].checked_out_at = NULL
        /\ attendances[k].checked_in_at \div TicksPerDay = now \div TicksPerDay}

SaleOps == {"sell_pass", "passes_list_post"}

CheckInOps == {"check_in_member", "attendance_list_post"}

\* C1: in every reachable state every member has at most one pass that is
\* 'active' and whose [start_date, end_date] contains today, whichever sale
\* entry point sold the passes.
C1_AtMostOneValidPass ==
    \A m \in Members : Cardinality(ValidPassesOf(m)) <= 1

\* a member whose earlier pass ran out, swept or not, was sold a new one
C1_Witness ==
    /\ last.op \in SaleOps
    /\ last.result = "sold"
    /\ \E i, j \in DOMAIN passes :
          /\ passes[i].member = last.member
          /\ passes[i].start_date <= passes[i].end_date
          /\ passes[i].end_date < Today
          /\ passes[j].member = last.member
          /\ ValidToday(j)

\* C2 (as stated): a sale to a member who holds a valid pass is rejected
\* with a conflict and leaves the Pass rows, count and contents, unchanged.
C2_RejectedSaleLeavesPassesUnchanged ==
    [][(last'.op \in SaleOps /\ ValidPassesOf(last'.member) # {})
          => (last'.result = "conflict" /\ passes' = passes)]_vars

\* C2 (amended): a sale to a member who holds a valid pass is rejected with
\* a conflict and creates no row; sell_pass changes no row at all, and the
\* only change passes_list makes is its sweep: the status of rows that are
\* 'active' with end_date < today becomes 'expired'.
C2_RejectedSaleCreatesNoRow ==
    [][(last'.op \in SaleOps /\ ValidPassesOf(last'.member) # {})
          => /\ last'.result = "conflict"
             /\ Len(passes') = Len(passes)
             /\ (last'.op = "sell_pass" => passes' = passes)
             /\ \A i \in DOMAIN passes :
                   \/ passes'[i] = passes[i]
                   \/ /\ passes[i].status = "active"
                      /\ passes[i].end_date < Today
                      /\ passes'[i] = [passes[i] EXCEPT !.status = "expired"]]_vars

\* a sale through passes_list was rejected and its sweep expired a stale row
C2_Witness ==
    /\ last.op = "passes_list_post"
    /\ last.result = "conflict"
    /\ \E i \in DOMAIN passes :
          passes[i].status = "expired" /\ passes[i].member = last.member

\* C3: a successful sale appends one pass with start_date = today,
\* end_date = start_date + (duration_days - 1) and price_snapshot = price of
\* its plan as the plan is at the sale, and status 'active'.
C3_SoldPassFields ==
    [][(last'.op \in SaleOps /\ last'.result = "sold")
          => /\ Len(passes') = Len(passes) + 1
             /\ LET p == passes'[Len(passes')]
                IN  /\ p.member = last'.member
                    /\ p.plan \in PlanIds
                    /\ p.start_date = Today
                    /\ p.end_date = Today + (plans[p.plan].duration_days - 1)
                    /\ p.price_snapshot = plans[p.plan].price
                    /\ p.status = "active"]_vars

\* a pass was sold from a plan whose duration and price had been edited
C3_Witness ==
    /\ last.op \in SaleOps
    /\ last.result = "sold"
    /\ LET p == passes[Len(passes)]
       IN  /\ p.end_date = p.start_date + 1
           /\ p.price_snapshot = 150
           /\ p.start_date = 1

\* C4: once the status of a pass is 'expired', no step sets it back to
\* 'active'.
C4_ExpiredStaysExpired ==
    [][\A i \in DOMAIN passes :
          passes[i].status = "expired"
             => (i \in DOMAIN passes' /\ passes'[i].status = "expired")]_vars

\* update_status has just run while an expired pass exists
C4_Witness ==
    /\ last.op = "update_status"
    /\ \E i \in DOMAIN passes : passes[i].status = "expired"

\* C5: a check-in, through either entry point, of a member without a valid
\* pass fails with the no-active-pass error and leaves the Attendance rows
\* unchanged.
C5_CheckInWithoutPassRejected ==
    [][(last'.op \in CheckInOps /\ ValidPassesOf(last'.member) = {})
          => (last'.result = "no_active_pass" /\ attendances' = attendances)]_vars

\* a check-in was refused to a member whose only pass is stale but not swept
C5_Witness ==
    /\ last.op \in CheckInOps
    /\ last.result = "no_active_pass"
    /\ \E i \in DOMAIN passes :
          /\ passes[i].member = last.member
          /\ passes[i].status = "active"
          /\ passes[i].end_date < Today

\* C6: a check-in of a member with a valid pass and no open Attendance of
\* today appends exactly one row: that member, the pass get_active_pass
\* returns (a valid pass of the member), checked_out_at null.
C6_CheckInCreatesOneRow ==
    [][(/\ last'.op \in CheckInOps
        /\ ValidPassesOf(last'.member) # {}
        /\ OpenRowsToday(last'.member) = {})
          => /\ last'.result = "checked_in"
             /\ Len(attendances') = Len(attendances) + 1
             /\ SubSeq(attendances', 1, Len(attendances)) = attendances
             /\ LET a == attendances'[Len(attendances')]
                IN  /\ a.member = last'.member
                    /\ a.membership_pass = get_active_pass(last'.member)
                    /\ a.membership_pass \in ValidPassesOf(last'.member)
                    /\ a.checked_out_at = NULL]_vars

\* a member checked in while the newest pass of the table is another one
C6_Witness ==
    /\ last.op \in CheckInOps
    /\ last.result = "checked_in"
    /\ attendances[Len(attendances)].membership_pass # Len(passes)

\* C7: every member has at most one Attendance row of today that is open.
C7_AtMostOneOpenToday ==
    \A m \in Members : Cardinality(OpenRowsToday(m)) <= 1

\* C8: check_out of a member with open rows of today closes the one with
\* the greatest checked_in_at and changes no other row.
C8_CheckOutClosesMostRecent ==
    [][(last'.op = "check_out_member" /\ OpenRowsToday(last'.member) # {})
          => \E k \in OpenRowsToday(last'.member) :
                /\ \A j \in OpenRowsToday(last'.member) :
                      attendances[j].checked_in_at <= attendances[k].checked_in_at
                /\ attendances'[k].checked_out_at # NULL
                /\ \A j \in DOMAIN attendances :
                      j # k => attendances'[j] = attendances[j]]_vars

\* C9: check_out of a member without an open row of today fails with the
\* not-checked-in error and changes no Attendance row.
C9_CheckOutWithoutOpenRowRejected ==
    [][(last'.op = "check_out_member" /\ OpenRowsToday(last'.member) = {})
          => (last'.result = "not_checked_in" /\ attendances' = attendances)]_vars

\* check-out was refused to a member whose open row is of an earlier day
C9_Witness ==
    /\ last.op = "check_out_member"
    /\ last.result = "not_checked_in"
    /\ \E k \in DOMAIN attendances :
          /\ attendances[k].member = last.member
          /\ attendances[k].checked_out_at = NULL
          /\ attendances[k].checked_in_at \div TicksPerDay < Today

\* C10: has_active_pass is true exactly when get_active_pass returns a
\* pass, and that pass is one of the member's own, 'active', with
\* start_date <= today <= end_date.
C10_HasActivePassIffValidPass ==
    \A m \in Members :
        /\ has_active_pass(m) <=> ValidPassesOf(m) # {}
        /\ has_active_pass(m) <=> get_active_pass(m) \in ValidPassesOf(m)
        /\ ~has_active_pass(m) => get_active_pass(m) = NULL

\* one member holds a valid pass while the other holds only a stale one
C10_Witness ==
    \E m, n \in Members :
        /\ has_active_pass(m)
        /\ ~has_active_pass(n)
        /\ \E i \in DOMAIN passes :
              passes[i].member = n /\ passes[i].status = "active"


\* C11: update_status sets the status of its pass to 'expired' exactly when
\* today > end_date and the status is 'active', changes nothing in every
\* other case, and a second application on the same day changes nothing
\* more.
C11_UpdateStatusExactAndIdempotent ==
    [][last'.op = "update_status"
          => \E i \in DOMAIN passes :
                /\ passes' = [passes EXCEPT ![i] =
                                 IF Today > passes[i].end_date
                                    /\ passes[i].status = "active"
                                 THEN [passes[i] EXCEPT !.status = "expired"]
                                 ELSE passes[i]]
                /\ update_status(passes'[i], Today) = passes'[i]]_vars

\* update_status has run with one pass past its end_date, now expired, and
\* one pass on its last day, still active
C11_Witness ==
    /\ last.op = "update_status"
    /\ \E i, j \in DOMAIN passes :
          /\ passes[i].status = "expired"
          /\ passes[i].end_date < Today
          /\ passes[j].status = "active"
          /\ passes[j].end_date = Today


\* C12: days_remaining equals max(0, (end_date - today) + 1): it is never
\* negative and it is 1 on the end date itself.
C12_DaysRemaining ==
    last.op = "days_remaining"
       => /\ last.value = (IF (last.end_date - last.today) + 1 > 0
                           THEN (last.end_date - last.today) + 1 ELSE 0)
          /\ last.value >= 0
          /\ (last.end_date = last.today => last.value = 1)

\* days_remaining was read two or more days after the end date
C12_Witness ==
    /\ last.op = "days_remaining"
    /\ last.today > last.end_date + 1
    /\ last.value = 0


\* C13: when a read of the expired passes (the count of the dashboard, the
\* listing of passes_list) has produced its result, no pass past its
\* end_date is still 'active', and the count is the number of passes whose
\* end_date is before today.
C13_ExpiredReadsSweepFirst ==
    last.op \in {"get_expired_passes_count", "passes_list_get"}
       => /\ \A i \in DOMAIN passes :
                passes[i].end_date < Today => passes[i].status = "expired"
          /\ last.op = "get_expired_passes_count"
                => last.value = Cardinality({i \in DOMAIN passes :
                                                passes[i].end_date < Today})

\* C14: deleting a plan that a pass refers to is refused with an error and
\* leaves the plan and every pass in place; a plan without passes is
\* deleted.
C14_PlanDeleteProtected ==
    [][last'.op = "plan_delete"
          => IF \E i \in DOMAIN passes : passes[i].plan = last'.plan
             THEN /\ last'.result = "protected"
                  /\ plans' = plans
                  /\ passes' = passes
             ELSE /\ last'.result = "deleted"
                  /\ last'.plan \notin DOMAIN plans'
                  /\ passes' = passes]_vars

\* the deletion of a plan with a pass was refused and both are still there
C14_Witness ==
    /\ last.op = "plan_delete"
    /\ last.result = "protected"
    /\ last.plan \in DOMAIN plans
    /\ \E i \in DOMAIN passes : passes[i].plan = last.plan

\* C15: no step changes the price_snapshot of an existing pass, and an edit
\* of a plan leaves the total revenue over the passes as it was.
C15_PriceSnapshotFixed ==
    [][/\ \A i \in DOMAIN passes :
             /\ i \in DOMAIN passes'
             /\ passes'[i].price_snapshot = passes[i].price_snapshot
       /\ last'.op = "plan_edit"
             => get_total_revenue(passes') = get_total_revenue(passes)]_vars

\* the price of a plan was edited after a pass was sold from it
C15_Witness ==
    /\ last.op = "plan_edit"
    /\ \E i \in DOMAIN passes :
          /\ passes[i].plan \in DOMAIN plans
          /\ passes[i].price_snapshot # plans[passes[i].plan].price


C17_HourlyDistribution ==
    last.op = "get_hourly_distribution" =>
        /\ DOMAIN last.value = 0..23
        /\ Cardinality(DOMAIN last.value) = 24
        /\ \A h \in 0..23 :
              last.value[h] = Cardinality({k \in DOMAIN last.input : last.input[k] = h})
        /\ last.input = <<>> => \A h \in 0..23 : last.value[h] = 0

\* rows at two hours, one of them with two rows, and the other hours at 0
C17_Witness ==
    /\ last.op = "get_hourly_distribution"
    /\ \E h, g \in 0..23 : last.value[h] = 2 /\ last.value[g] = 1
    /\ Cardinality({h \in 0..23 : last.value[h] = 0}) = 22

\* C18: the per-plan reports give one entry per plan that has passes, with
\* that plan's number of passes / sum of price_snapshot, in descending order
\* of that value; plans of one name are separate entries.
C18_OneEntryPerPlan ==
    last.op \in {"get_sales_count_by_plan", "get_revenue_by_plan"} =>
        LET ps == last.input
            withPasses == {ps[k].plan : k \in DOMAIN ps}
            rowsOf(pl) == {k \in DOMAIN ps : ps[k].plan = pl}
            valueOf(e) == IF last.op = "get_sales_count_by_plan"
                          THEN e.count ELSE e.total
            ofPlan(pl) == IF last.op = "get_sales_count_by_plan"
                          THEN Cardinality(rowsOf(pl))
                          ELSE SumOver(ps, rowsOf(pl))
        IN  /\ Cardinality(DOMAIN last.value) = Cardinality(withPasses)
            /\ \A pl \in withPasses : \E k \in DOMAIN last.value :
                  /\ last.value[k].plan_name = last.names[pl]
                  /\ valueOf(last.value[k]) = ofPlan(pl)
            /\ \A i, j \in DOMAIN last.value :
                  i < j => valueOf(last.value[i]) >= valueOf(last.value[j])

\* C19: for a member without any attendance the churn scorer gives the
\* probability 0.95 of the 0..1 scale (100 * prob = 95, the percentage shown
\* is 95) and the risk "Low".
C19_NoAttendanceChurn ==
    (last.op = "predict_churn" /\ last.input = {}) =>
        /\ 100 * last.value.prob = 95
        /\ last.return_prob = 95
        /\ last.value.risk = "Low"

\* C20: for a member with attendance, all of it more than 7 days ago, the
\* churn scorer gives probability 0 and risk "High".
C20_LapsedMemberChurn ==
    (/\ last.op = "predict_churn"
     /\ last.input # {}
     /\ \A d \in last.input : d > 7) =>
        /\ last.value.prob = 0
        /\ last.value.risk = "High"


\* C21: for every training_days n of 1..6 generate_weekly_structure returns
\* exactly the day entries 1..n, each a non-empty list of labels; for n = 1
\* the one day is Chest, Back, Legs, Shoulders, Arms, Core; the result is the
\* same for every other field of the profile.
C21_WeeklyStructure ==
    last.op = "generate_weekly_structure" =>
        /\ DOMAIN last.value = 1..last.training_days
        /\ \A d \in DOMAIN last.value : Len(last.value[d]) >= 1
        /\ last.training_days = 1 =>
              last.value = << <<"Chest", "Back", "Legs", "Shoulders", "Arms", "Core">> >>
        /\ \A g \in Goals :
              generate_weekly_structure(
                  [training_days |-> last.training_days, primary_goal |-> g])
                = last.value

\* the six-day structure was generated
C21_Witness ==
    /\ last.op = "generate_weekly_structure"
    /\ last.training_days = 6
    /\ Len(last.value) = 6

\* C22: calculate_bmi gives None when an input is missing (None or 0) or
\* height <= 0, and
\* else Underweight for bmi < 18.5, Normal for 18.5 <= bmi < 25, Overweight
\* for 25 <= bmi < 30 and Obese only for bmi >= 30 (bmi = 10000 * weight /
\* height ** 2, compared in integers).
C22_BmiBands ==
    last.op = "calculate_bmi" =>
        LET h == last.height_cm
            w == last.weight_kg
        IN  IF h = NULL \/ w \in {NULL, 0} \/ h <= 0
            THEN last.value = "None"
            ELSE /\ last.value # "None"
                 /\ last.value = "Underweight" <=> 100000 * w < 185 * h * h
                 /\ last.value = "Normal" <=>
                       (185 * h * h <= 100000 * w /\ 100000 * w < 250 * h * h)
                 /\ last.value = "Overweight" <=>
                       (250 * h * h <= 100000 * w /\ 100000 * w < 300 * h * h)
                 /\ last.value = "Obese" <=> 300 * h * h <= 100000 * w


\* the requests of the personalization page other than the manual edit
NonEditOps ==
    {"personalization_get", "personalization_disable",
     "personalization_enable", "personalization_update"}

\* C23 as stated: in every page view, enable/disable and configuration
\* update the schedule is regenerated exactly when training_days changes or
\* the stored schedule is empty, and is retained unchanged otherwise.
C23_RegeneratedExactlyWhenChangedOrEmpty ==
    [][last'.op \in NonEditOps =>
         IF profile'.training_days # profile.training_days
               \/ ScheduleEmpty(profile.weekly_schedule)
         THEN /\ last'.result = "regenerated"
              /\ profile'.weekly_schedule = generate_weekly_structure(profile')
         ELSE profile'.weekly_schedule = profile.weekly_schedule]_vars

\* C23 amended: a non-empty schedule, a manual one included, is retained by
\* every page view, enable/disable and configuration update that leaves
\* training_days as it is; a configuration update regenerates exactly when
\* training_days changes or the schedule is empty; a page view regenerates
\* exactly when the profile is active and the schedule is empty; enable and
\* disable never regenerate.
C23_ScheduleRegeneration ==
    [][last'.op \in NonEditOps =>
         LET regenerate ==
                CASE last'.op = "personalization_update" ->
                        \/ profile'.training_days # profile.training_days
                        \/ ScheduleEmpty(profile.weekly_schedule)
                  [] last'.op = "personalization_get" ->
                        /\ profile.is_active
                        /\ ScheduleEmpty(profile.weekly_schedule)
                  [] OTHER -> FALSE
         IN  IF regenerate
             THEN /\ last'.result = "regenerated"
                  /\ profile'.weekly_schedule = generate_weekly_structure(profile')
             ELSE /\ last'.result = "kept"
                  /\ profile'.weekly_schedule = profile.weekly_schedule]_vars

\* a manual schedule that is not the generated one survived a configuration
\* update with the same training_days
C23_Witness ==
    /\ last.op = "personalization_update"
    /\ last.result = "kept"
    /\ ~ScheduleEmpty(profile.weekly_schedule)
    /\ profile.weekly_schedule # generate_weekly_structure(profile)


\* C24: the one-active-pass test and the write are separate steps without a
\* lock: a request is admitted exactly when the member has no active pass at
\* the test, and the write of an admitted request creates its row whatever
\* the member's passes are by then; so two interleaved sales of one member
\* both create a row (the state of C24_Witness).
C24_CheckThenWriteRace ==
    [][/\ last'.op \in {"sell_pass_check", "passes_list_check"} =>
             /\ (last'.result = "valid") = (inflight' # inflight)
             /\ last'.result = "valid" => ~has_active_pass(last'.member)
             /\ has_active_pass(last'.member) => last'.result = "conflict"
             /\ Len(passes') = Len(passes)
       /\ last'.op = "sale_create" =>
             /\ last'.result = "sold"
             /\ Len(passes') = Len(passes) + 1
             /\ passes'[Len(passes')].member = last'.member
             /\ passes'[Len(passes')].status = "active"
             /\ \A i \in DOMAIN passes : passes'[i] = passes[i]]_vars

\* a member holds two passes that are both 'active' and contain today
C24_Witness ==
    \E m \in Members : Cardinality(ValidPassesOf(m)) >= 2


\* C25: for a member with attendance, d whole days since the last visit,
\* predict_churn gives Low for d <= 7, Medium for 8..14, High for 15..30 and
\* Critical for d > 30, and a probability within 1..99.
C25_RecencyBands ==
    (last.op = "predict_churn" /\ last.input # {}) =>
        LET d == CHOOSE x \in last.input : \A y \in last.input : x <= y
        IN  /\ last.value.risk =
                  (IF d <= 7 THEN "Low"
                   ELSE IF d <= 14 THEN "Medium"
                   ELSE IF d <= 30 THEN "High"
                   ELSE "Critical")
            /\ last.value.prob >= 1
            /\ last.value.prob <= 99

\* a member whose last visit is more than 30 days ago was scored
C25_Witness ==
    /\ last.op = "predict_churn"
    /\ last.input # {}
    /\ \A x \in last.input : x > 30
    /\ last.value.risk = "Critical"

\* C26: the streak is 1 if the member attended today, else 0, plus the length
\* of the unbroken run of attended days that ends yesterday, over no more
\* than the 60 days scanned.
C26_Streak ==
    last.op = "get_member_analytics" =>
        last.value.streak =
            (IF 0 \in last.input THEN 1 ELSE 0)
            + Cardinality({k \in 1..59 : \A j \in 1..k : j \in last.input})

\* no visit today, a run of two days ending yesterday, older visits after a
\* gap: the streak is 2
C26_Witness ==
    /\ last.op = "get_member_analytics"
    /\ 0 \notin last.input
    /\ {1, 2, 4} \subseteq last.input
    /\ 3 \notin last.input
    /\ last.value.streak = 2

\* the order of the risk levels
RiskRank(r) ==
    CASE r = "Low" -> 0 [] r = "Medium" -> 1 [] r = "High" -> 2 [] r = "Critical" -> 3

\* C30: of two members with attendance, the one whose last visit is longer
\* ago has a probability that is not higher and a risk level that is not
\* better.
C30_ChurnMonotone ==
    (last.op = "predict_churn_pair" /\ last.days1 <= last.days2) =>
        /\ last.value2.prob <= last.value1.prob
        /\ RiskRank(last.value1.risk) <= RiskRank(last.value2.risk)

\* the two members are on either side of the band boundary at 7 days
C30_Witness ==
    /\ last.op = "predict_churn_pair"
    /\ last.days1 = 7
    /\ last.days2 = 8
    /\ last.value1.risk = "Low"
    /\ last.value2.risk = "Medium"


\* the passes of ps that are of m, 'active' and contain today
ValidIn(ps, m) ==
    {i \in DOMAIN ps :
        /\ ps[i].member = m
        /\ ps[i].status = "active"
        /\ ps[i].start_date <= Today
        /\ Today <= ps[i].end_date}

\* C27: get_active_pass never returns a pass whose end_date is before today,
\* and a sale is refused for conflict, and a check-in admitted, exactly when
\* the member has a valid pass in the table as the sweep would leave it: a
\* stale 'active' status changes neither outcome.
C27_StaleStatusIsInert ==
    [][/\ \A m \in Members :
             /\ get_active_pass(m) # NULL =>
                   passes[get_active_pass(m)].end_date >= Today
             /\ ValidIn(passes, m) = ValidIn(Sweep(passes, Today), m)
       /\ last'.op \in SaleOps =>
             ((last'.result = "conflict")
                 <=> ValidIn(Sweep(passes, Today), last'.member) # {})
       /\ last'.op \in CheckInOps =>
             ((last'.result = "no_active_pass")
                 <=> ValidIn(Sweep(passes, Today), last'.member) = {})]_vars

\* a pass was sold by sell_pass to a member whose earlier pass is past its
\* end_date and still 'active'
C27_Witness ==
    /\ last.op = "sell_pass"
    /\ last.result = "sold"
    /\ \E i \in DOMAIN passes :
          /\ passes[i].member = last.member
          /\ passes[i].status = "active"
          /\ passes[i].end_date < Today

\* C28: every Attendance row refers to a pass of its own member whose
\* [start_date, end_date] contains the date of the check-in.
C28_AttendancePassOfMember ==
    \A k \in DOMAIN attendances :
        /\ attendances[k].membership_pass # NULL
        /\ attendances[k].membership_pass \in DOMAIN passes
        /\ LET p == passes[attendances[k].membership_pass]
           IN  /\ p.member = attendances[k].member
               /\ p.start_date <= DateOf(attendances[k].checked_in_at)
               /\ DateOf(attendances[k].checked_in_at) <= p.end_date

\* a row of an earlier day whose pass has since been swept to 'expired',
\* beside a row of the other member
C28_Witness ==
    \E k, j \in DOMAIN attendances :
        /\ DateOf(attendances[k].checked_in_at) < Today
        /\ passes[attendances[k].membership_pass].status = "expired"
        /\ attendances[j].member # attendances[k].member

\* C29: the sweep and update_status change nothing of a pass but its status,
\* and that only from 'active' to 'expired' of a pass with end_date < today;
\* check-out changes checked_out_at of one row and nothing else.
C29_OnlyStatusOfStalePasses ==
    [][/\ last'.op \in {"passes_list_get", "passes_list_post", "update_status"} =>
             \A i \in DOMAIN passes :
                /\ i \in DOMAIN passes'
                /\ passes'[i] = [passes[i] EXCEPT !.status = passes'[i].status]
                /\ passes'[i].status # passes[i].status =>
                      /\ passes[i].status = "active"
                      /\ passes[i].end_date < Today
                      /\ passes'[i].status = "expired"
       /\ last'.op = "check_out_member" =>
             /\ passes' = passes
             /\ DOMAIN attendances' = DOMAIN attendances
             /\ Cardinality({k \in DOMAIN attendances :
                               attendances'[k] # attendances[k]}) <= 1
             /\ \A k \in DOMAIN attendances :
                   attendances'[k] = [attendances[k] EXCEPT
                        !.checked_out_at = attendances'[k].checked_out_at]]_vars

\* the sweep of passes_list has expired one pass and left a pass that ends
\* today 'active'
C29_Witness ==
    /\ last.op = "passes_list_get"
    /\ \E i, j \in DOMAIN passes :
          /\ passes[i].status = "expired"
          /\ passes[i].end_date < Today
          /\ passes[j].status = "active"
          /\ passes[j].end_date = Today

====
